---- MODULE Spec2Model ----
(***************************************************************************)
(* Model of upkie.envs.UpkieServos (src/upkie/envs/upkie_servos.py): the   *)
(* construction of the default/min/max action tables and of the space      *)
(* descriptors from the kinematic model, and the per-cycle conversion of   *)
(* an environment action into a spine action.                              *)
(*                                                                         *)
(* Python dictionaries are functions whose DOMAIN is the set of keys, so   *)
(* that a missing key (KeyError) is a key outside the DOMAIN.  Floats are  *)
(* integers: 0.0 is 0 and 1.0 is 1; NaN and infinities are not modelled.   *)
(***************************************************************************)
EXTENDS Integers, Sequences, FiniteSets, TLC

VARIABLES
    robot,              \* kinematic model returned by load_in_pinocchio
    pc,                 \* position of the caller: which call comes next
    default_action,     \* self.__default_action
    max_action,         \* self.__max_action
    min_action,         \* self.__min_action
    action_space,       \* self.action_space
    observation_space,  \* self.observation_space
    op,                 \* name of the last operation that ran
    arg,                \* its argument(s)
    ret,                \* its return value (None when it raised)
    raised,             \* the exception it raised, or NoException
    log                 \* the warnings logged during it, in order

vars == <<robot, pc, default_action, max_action, min_action, action_space,
          observation_space, op, arg, ret, raised, log>>

tables == <<default_action, max_action, min_action>>

----------------------------------------------------------------------------
(* Bounds of the model *)

\* the limits of a kinematic model lie in (-MaxLimit - 1)..(MaxLimit + 1)
MaxLimit == 1
\* values of an environment action are drawn from -MaxValue..MaxValue
MaxValue == 2

----------------------------------------------------------------------------
(* Class constants *)

ACTION_KEYS ==
    <<"position", "velocity", "feedforward_torque", "kp_scale", "kd_scale",
      "maximum_torque">>

JOINT_NAMES ==
    <<"left_hip", "left_knee", "left_wheel", "right_hip", "right_knee",
      "right_wheel">>

----------------------------------------------------------------------------
(* Python values *)

\* None: what a variable holds when there is no value
None == [none |-> TRUE]

NoException == [type |-> "none"]

EmptyDict == [x \in {} |-> x]

\* d[k] = v on a dictionary
Put(d, k, v) == [x \in (DOMAIN d) \cup {k} |-> IF x = k THEN v ELSE d[x]]

\* set(...) of a list
Range(s) == {s[i] : i \in DOMAIN s}

----------------------------------------------------------------------------
(* The kinematic model: what upkie_description.load_in_pinocchio returns.  *)
(* names[1] is pinocchio's "universe"; the joint of names[i] has id i - 1. *)
(* The limit vectors are indexed from 0 by idx_q / idx_v.                  *)

UNIVERSE == "universe"

\* a joint name that is not one of JOINT_NAMES
UNKNOWN_JOINT == "head_pan"

Reverse(s) == [i \in 1..Len(s) |-> s[Len(s) + 1 - i]]

DropAt(s, i) == [k \in 1..(Len(s) - 1) |-> IF k < i THEN s[k] ELSE s[k + 1]]

RenameAt(s, i) == [k \in 1..Len(s) |-> IF k = i THEN UNKNOWN_JOINT ELSE s[k]]

\* joint lists whose set is the expected one, in several orders
MatchingJointLists == {JOINT_NAMES, Reverse(JOINT_NAMES)}

\* joint lists with a missing, a renamed or an extra joint, or no joint
OtherJointLists ==
    {DropAt(JOINT_NAMES, i) : i \in 1..Len(JOINT_NAMES)}
        \cup {RenameAt(JOINT_NAMES, i) : i \in 1..Len(JOINT_NAMES)}
        \cup { JOINT_NAMES \o <<UNKNOWN_JOINT>>,
               <<UNKNOWN_JOINT>> \o JOINT_NAMES,
               <<>> }

\* A model with the given joints.  Limits differ from joint to joint; every
\* position pair has lower <= upper and every magnitude is >= 0.
KinematicModel(joints, p, m) ==
    LET idx == 0..(Len(joints) - 1) IN
    [ names |-> <<UNIVERSE>> \o joints,
      lowerPositionLimit |-> [i \in idx |-> -p - (i % 2)],
      upperPositionLimit |-> [i \in idx |-> p + ((i + 1) % 2)],
      velocityLimit |-> [i \in idx |-> (m + 2 * i) % (MaxLimit + 2)],
      effortLimit |-> [i \in idx |-> (m + i) % (MaxLimit + 2)] ]

KinematicModels ==
    { KinematicModel(joints, p, m) :
        joints \in MatchingJointLists \cup OtherJointLists,
        p \in 0..MaxLimit, m \in 0..MaxLimit }

\* model.getJointId(name)
getJointId(model, name) ==
    (CHOOSE i \in 1..Len(model.names) :
        /\ model.names[i] = name
        /\ \A k \in 1..(i - 1) : model.names[k] # name) - 1

\* model.joints[id]: every joint is revolute and the model has no root joint
JointModel(model, id) == [idx_q |-> id - 1, idx_v |-> id - 1]

\* upkie.utils.pinocchio: the limits of the model as box bounds
box_position_limits(model) ==
    <<model.lowerPositionLimit, model.upperPositionLimit>>

box_velocity_limits(model) == model.velocityLimit

box_torque_limits(model) == model.effortLimit

----------------------------------------------------------------------------
(* UpkieServos.__init__ *)

\* list(model.names)[1:]
joint_names_of(model) == Tail(model.names)

\* faulty variant: extra joints go unnoticed
joints_mismatch_subset(joint_names) ==
    ~(Range(JOINT_NAMES) \subseteq Range(joint_names))

\* the guard of the ModelError: set(joint_names) != set(self.JOINT_NAMES)
joints_mismatch(joint_names) == Range(joint_names) # Range(JOINT_NAMES)

\* the message of the ModelError
ModelErrorMessage(joint_names) ==
    [text |-> "Upkie joints don't match:", expected |-> JOINT_NAMES,
     got |-> joint_names]

\* faulty variant: velocity gets the default of the commented-out line
default_entry_with_velocity(tau_max, joint) ==
    [ velocity |-> 0,
      feedforward_torque |-> 0,
      kp_scale |-> 1,
      kd_scale |-> 1,
      maximum_torque |-> tau_max[joint.idx_v] ]

\* faulty variant: feedforward_torque defaults to the torque limit
default_entry_copied_torque(tau_max, joint) ==
    [ feedforward_torque |-> tau_max[joint.idx_v],
      kp_scale |-> 1,
      kd_scale |-> 1,
      maximum_torque |-> tau_max[joint.idx_v] ]

\* default_action[name]: position and velocity have no default
default_entry(tau_max, joint) ==
    [ feedforward_torque |-> 0,
      kp_scale |-> 1,
      kd_scale |-> 1,
      maximum_torque |-> tau_max[joint.idx_v] ]

\* max_action[name]
max_entry(q_max, v_max, tau_max, joint) ==
    [ position |-> q_max[joint.idx_q],
      velocity |-> v_max[joint.idx_v],
      feedforward_torque |-> tau_max[joint.idx_v],
      kp_scale |-> 1,
      kd_scale |-> 1,
      maximum_torque |-> tau_max[joint.idx_v] ]

\* faulty variant: the lower position limit negated like the next two lines
min_entry_negated_position(q_min, v_max, tau_max, joint) ==
    [ position |-> -q_min[joint.idx_q],
      velocity |-> -v_max[joint.idx_v],
      feedforward_torque |-> -tau_max[joint.idx_v],
      kp_scale |-> 0,
      kd_scale |-> 0,
      maximum_torque |-> 0 ]

\* min_action[name]
min_entry(q_min, v_max, tau_max, joint) ==
    [ position |-> q_min[joint.idx_q],
      velocity |-> -v_max[joint.idx_v],
      feedforward_torque |-> -tau_max[joint.idx_v],
      kp_scale |-> 0,
      kd_scale |-> 0,
      maximum_torque |-> 0 ]

\* spaces.Box(low=low, high=high, shape=(1,), dtype=np.float32)
Box(low, high) == [low |-> low, high |-> high]

\* space[name] = spaces.Dict({...})
space_entry(q_min, q_max, v_max, tau_max, joint) ==
    [ position |-> Box(q_min[joint.idx_q], q_max[joint.idx_q]),
      velocity |-> Box(-v_max[joint.idx_v], v_max[joint.idx_v]),
      feedforward_torque |-> Box(-tau_max[joint.idx_v], tau_max[joint.idx_v]),
      kp_scale |-> Box(0, 1),
      kd_scale |-> Box(0, 1),
      maximum_torque |-> Box(0, tau_max[joint.idx_v]) ]

\* the five dictionaries before the loop over joint_names
NoTables ==
    [ action_space |-> EmptyDict, default_action |-> EmptyDict,
      max_action |-> EmptyDict, min_action |-> EmptyDict,
      observation_space |-> EmptyDict ]

\* for name in joint_names: ... (from the n-th name on)
RECURSIVE BuildTables(_, _, _)
BuildTables(model, n, t) ==
    LET joint_names == joint_names_of(model)
        q_min == box_position_limits(model)[1]
        q_max == box_position_limits(model)[2]
        v_max == box_velocity_limits(model)
        tau_max == box_torque_limits(model)
    IN  IF n > Len(joint_names) THEN t
        ELSE LET name == joint_names[n]
                 joint == JointModel(model, getJointId(model, name))
                 space == space_entry(q_min, q_max, v_max, tau_max, joint)
             IN  BuildTables(model, n + 1,
                    [ action_space |-> Put(t.action_space, name, space),
                      default_action |->
                          Put(t.default_action, name,
                              default_entry(tau_max, joint)),
                      max_action |->
                          Put(t.max_action, name,
                              max_entry(q_max, v_max, tau_max, joint)),
                      min_action |->
                          Put(t.min_action, name,
                              min_entry(q_min, v_max, tau_max, joint)),
                      observation_space |->
                          Put(t.observation_space, name, space) ])

\* __init__: raise ModelError, or build the tables and the spaces
UpkieServos_init ==
    /\ pc = "init"
    /\ LET joint_names == joint_names_of(robot) IN
       IF joints_mismatch(joint_names)
       THEN /\ raised' = [type |-> "ModelError",
                          message |-> ModelErrorMessage(joint_names)]
            /\ pc' = "ModelError"
            /\ UNCHANGED <<default_action, max_action, min_action,
                           action_space, observation_space>>
       ELSE LET t == BuildTables(robot, 1, NoTables) IN
            /\ action_space' = t.action_space
            /\ observation_space' = t.observation_space
            /\ default_action' = t.default_action
            /\ max_action' = t.max_action
            /\ min_action' = t.min_action
            /\ raised' = NoException
            /\ pc' = "get_spine_action"
    /\ op' = "__init__"
    /\ arg' = None
    /\ ret' = None
    /\ log' = <<>>
    /\ UNCHANGED robot

----------------------------------------------------------------------------
(* upkie.utils.clamp *)

\* label=f"{joint}: {key}"
Label(joint, key) == [joint |-> joint, key |-> key]

\* clamp_and_warn(value, lower, upper, label): the value clamped into
\* [lower, upper], and the warning logged when the value was outside
clamp_and_warn(value, lower, upper, label) ==
    IF value > upper
    THEN [ value |-> upper,
           warnings |-> << [label |-> label, value |-> value,
                            clamped |-> upper] >> ]
    ELSE IF value < lower
    THEN [ value |-> lower,
           warnings |-> << [label |-> label, value |-> value,
                            clamped |-> lower] >> ]
    ELSE [ value |-> value, warnings |-> <<>> ]

----------------------------------------------------------------------------
(* UpkieServos.get_spine_action *)

\* f'Missing key "{key}" required for joint "{joint}"'
ActionErrorMessage(key, joint) ==
    [text |-> "Missing key required for joint", key |-> key, joint |-> joint]

\* the try block: the value of env_action, else the default, else KeyError
Resolve(env_action, defaults, joint, key) ==
    IF joint \notin DOMAIN env_action THEN [ok |-> FALSE, action |-> None]
    ELSE IF key \in DOMAIN env_action[joint]
    THEN [ok |-> TRUE, action |-> env_action[joint][key]]
    ELSE IF joint \in DOMAIN defaults /\ key \in DOMAIN defaults[joint]
    THEN [ok |-> TRUE, action |-> defaults[joint][key]]
    ELSE [ok |-> FALSE, action |-> None]

\* faulty variant: the value is stored as resolved
servo_value_unclamped(action, lows, highs, joint, key) ==
    [value |-> action, warnings |-> <<>>]

\* faulty variant: every field is clamped with the bounds of position
servo_value_position_bounds(action, lows, highs, joint, key) ==
    clamp_and_warn(action, lows[joint]["position"], highs[joint]["position"],
                   Label(joint, key))

\* servo_action[key] = clamp_and_warn(action, min, max, label)
servo_value(action, lows, highs, joint, key) ==
    clamp_and_warn(action, lows[joint][key], highs[joint][key],
                   Label(joint, key))

\* faulty variant: the keys are visited from the last to the first
RECURSIVE KeyLoop_reversed(_, _, _, _, _, _, _, _)
KeyLoop_reversed(env_action, defaults, lows, highs, joint, k, servo_action, warnings) ==
    IF k > Len(ACTION_KEYS)
    THEN [ raised |-> NoException, servo_action |-> servo_action,
           warnings |-> warnings ]
    ELSE LET key == ACTION_KEYS[Len(ACTION_KEYS) + 1 - k]
             r == Resolve(env_action, defaults, joint, key)
         IN  IF ~r.ok
             THEN [ raised |-> [type |-> "ActionError",
                                message |-> ActionErrorMessage(key, joint)],
                    servo_action |-> servo_action,
                    warnings |-> warnings ]
             ELSE LET c == clamp_and_warn(r.action, lows[joint][key],
                                          highs[joint][key],
                                          Label(joint, key))
                  IN  KeyLoop_reversed(env_action, defaults, lows, highs,
                                       joint, k + 1,
                                       Put(servo_action, key, c.value),
                                       warnings \o c.warnings)

\* for key in self.ACTION_KEYS: ... (from the k-th key on)
RECURSIVE KeyLoop(_, _, _, _, _, _, _, _)
KeyLoop(env_action, defaults, lows, highs, joint, k, servo_action, warnings) ==
    IF k > Len(ACTION_KEYS)
    THEN [ raised |-> NoException, servo_action |-> servo_action,
           warnings |-> warnings ]
    ELSE LET key == ACTION_KEYS[k]
             r == Resolve(env_action, defaults, joint, key)
         IN  IF ~r.ok
             THEN [ raised |-> [type |-> "ActionError",
                                message |-> ActionErrorMessage(key, joint)],
                    servo_action |-> servo_action,
                    warnings |-> warnings ]
             ELSE LET c == servo_value(r.action, lows, highs, joint, key)
                  IN  KeyLoop(env_action, defaults, lows, highs, joint, k + 1,
                              Put(servo_action, key, c.value),
                              warnings \o c.warnings)

\* for joint in self.JOINT_NAMES: ... (from the j-th joint on)
RECURSIVE JointLoop(_, _, _, _, _, _, _)
JointLoop(env_action, defaults, lows, highs, j, spine_action, warnings) ==
    IF j > Len(JOINT_NAMES)
    THEN [ raised |-> NoException, ret |-> spine_action,
           warnings |-> warnings ]
    ELSE LET joint == JOINT_NAMES[j]
             inner == KeyLoop(env_action, defaults, lows, highs, joint, 1,
                              EmptyDict, warnings)
         IN  IF inner.raised # NoException
             THEN [ raised |-> inner.raised, ret |-> None,
                    warnings |-> inner.warnings ]
             ELSE JointLoop(env_action, defaults, lows, highs, j + 1,
                            [servo |-> Put(spine_action.servo, joint,
                                           inner.servo_action)],
                            inner.warnings)

\* faulty variant: entries of joints outside JOINT_NAMES are copied over
Translate_passing_unknown_joints(env_action, defaults, lows, highs) ==
    LET r == JointLoop(env_action, defaults, lows, highs, 1,
                       [servo |-> EmptyDict], <<>>)
    IN  IF r.raised # NoException THEN r
        ELSE [ r EXCEPT !.ret =
                 [servo |-> [joint \in DOMAIN env_action \cup DOMAIN r.ret.servo |->
                               IF joint \in DOMAIN r.ret.servo
                               THEN r.ret.servo[joint]
                               ELSE env_action[joint]]] ]

\* faulty variant: a joint outside JOINT_NAMES is an error
Translate_rejecting_unknown_joints(env_action, defaults, lows, highs) ==
    IF \E joint \in DOMAIN env_action : joint \notin Range(JOINT_NAMES)
    THEN [ raised |-> [type |-> "ActionError",
                       message |-> ActionErrorMessage("position",
                                                      UNKNOWN_JOINT)],
           ret |-> None, warnings |-> <<>> ]
    ELSE JointLoop(env_action, defaults, lows, highs, 1,
                   [servo |-> EmptyDict], <<>>)

\* what one call does: the exception or the returned dictionary, and the
\* warnings logged on the way
Translate(env_action, defaults, lows, highs) ==
    JointLoop(env_action, defaults, lows, highs, 1, [servo |-> EmptyDict],
              <<>>)

----------------------------------------------------------------------------
(* The caller: the environment actions and spine observations it passes *)

\* a field name that is not one of ACTION_KEYS
UNKNOWN_KEY == "temperature"

Values == (-MaxValue)..MaxValue

\* the value the ordinary joints carry: below, inside or above the bounds
BaseValues == {-MaxValue, 0, MaxValue}

REQUIRED_KEYS == {"position", "velocity"}

\* the keys every ordinary joint of an action carries
BaseKeySets == {Range(ACTION_KEYS), REQUIRED_KEYS, {"position"}}

\* the keys the distinguished joint of an action may carry
OtherKeySets ==
    { {}, {"position"}, {"velocity"}, REQUIRED_KEYS, Range(ACTION_KEYS),
      REQUIRED_KEYS \cup {"kp_scale", UNKNOWN_KEY} }

\* {joint: {key: v0}} for the six joints, except that joint jd is absent
UniformActionWithout(keys, v0, jd) ==
    [joint \in Range(JOINT_NAMES) \ {jd} |-> [key \in keys |-> v0]]

\* Structured actions: every joint carries the same keys with the same
\* value, except one joint (possibly an unknown one) that is absent or
\* carries other keys and another value.
EnvActions ==
    { UniformActionWithout(keys, v0, jd) :
        keys \in BaseKeySets, v0 \in BaseValues,
        jd \in Range(JOINT_NAMES) \cup {UNKNOWN_JOINT} }
    \cup
    { Put(UniformActionWithout(keys, v0, jd), jd, [key \in kd |-> vd]) :
        keys \in BaseKeySets, v0 \in BaseValues,
        jd \in Range(JOINT_NAMES) \cup {UNKNOWN_JOINT},
        kd \in OtherKeySets, vd \in Values }

\* observation dictionaries as the spine reports them
SpineObservations ==
    { EmptyDict,
      [servo |-> [joint \in Range(JOINT_NAMES) |->
                    [position |-> MaxValue, velocity |-> -MaxValue,
                     torque |-> 0]]] }

\* (observation, action) pairs passed to get_reward, the empty ones included
RewardCalls ==
    { [observation |-> EmptyDict, action |-> EmptyDict],
      [observation |-> CHOOSE o \in SpineObservations : o # EmptyDict,
       action |-> UniformActionWithout(REQUIRED_KEYS, 0, UNKNOWN_JOINT)] }

----------------------------------------------------------------------------
(* The operations *)

Init ==
    /\ robot \in KinematicModels
    /\ pc = "init"
    /\ default_action = EmptyDict
    /\ max_action = EmptyDict
    /\ min_action = EmptyDict
    /\ action_space = EmptyDict
    /\ observation_space = EmptyDict
    /\ op = "none"
    /\ arg = None
    /\ ret = None
    /\ raised = NoException
    /\ log = <<>>

\* faulty variant: the last command becomes the default of the next call
get_spine_action_keeping_last ==
    /\ pc = "get_spine_action"
    /\ \E env_action \in EnvActions :
         LET r == Translate(env_action, default_action, min_action,
                            max_action)
         IN  /\ arg' = env_action
             /\ ret' = r.ret
             /\ raised' = r.raised
             /\ log' = r.warnings
             /\ default_action' =
                    IF r.raised = NoException THEN r.ret.servo
                    ELSE default_action
    /\ op' = "get_spine_action"
    /\ pc' = "get_env_observation"
    /\ UNCHANGED <<robot, max_action, min_action, action_space,
                   observation_space>>

\* get_spine_action(env_action).  A caller that catches the ActionError goes
\* on with the cycle.
get_spine_action ==
    /\ pc = "get_spine_action"
    /\ \E env_action \in EnvActions :
         LET r == Translate(env_action, default_action, min_action,
                            max_action)
         IN  /\ arg' = env_action
             /\ ret' = r.ret
             /\ raised' = r.raised
             /\ log' = r.warnings
    /\ op' = "get_spine_action"
    /\ pc' = "get_env_observation"
    /\ UNCHANGED <<robot, default_action, max_action, min_action,
                   action_space, observation_space>>

\* get_env_observation(spine_observation)
get_env_observation ==
    /\ pc = "get_env_observation"
    /\ \E spine_observation \in SpineObservations :
         /\ arg' = spine_observation
         /\ ret' = spine_observation
    /\ op' = "get_env_observation"
    /\ raised' = NoException
    /\ log' = <<>>
    /\ pc' = "get_reward"
    /\ UNCHANGED <<robot, default_action, max_action, min_action,
                   action_space, observation_space>>

\* get_reward(observation, action)
get_reward ==
    /\ pc = "get_reward"
    /\ \E call \in RewardCalls : arg' = call
    /\ ret' = 1
    /\ op' = "get_reward"
    /\ raised' = NoException
    /\ log' = <<>>
    /\ pc' = "get_spine_action"
    /\ UNCHANGED <<robot, default_action, max_action, min_action,
                   action_space, observation_space>>

Next ==
    \/ UpkieServos_init
    \/ get_spine_action
    \/ get_env_observation
    \/ get_reward

Spec == Init /\ [][Next]_vars

----------------------------------------------------------------------------
(* Vocabulary of the properties *)

Joints == Range(JOINT_NAMES)

Keys == Range(ACTION_KEYS)

\* the last operation was get_spine_action
Translated == op = "get_spine_action"

\* ... and it returned a spine action
Returned == Translated /\ raised = NoException

\* ... and it raised ActionError
Failed == Translated /\ raised # NoException

\* the action a carries no value for (joint, key)
Lacks(a, joint, key) == joint \notin DOMAIN a \/ key \notin DOMAIN a[joint]

\* the (joint, key) pairs of position and velocity that the action lacks
MissingRequired(a) ==
    {jk \in Joints \X {"position", "velocity"} : Lacks(a, jk[1], jk[2])}

\* a warning labelled with (joint, key) was logged
Warned(joint, key) ==
    \E i \in DOMAIN log : log[i].label = Label(joint, key)

\* the joint names of the loaded model, without the universe
ModelJointSet == {robot.names[i] : i \in 2..Len(robot.names)}

\* the torque limit the loaded model gives for a joint
TorqueLimit(joint) ==
    robot.effortLimit[
        (CHOOSE i \in 2..Len(robot.names) : robot.names[i] = joint) - 2]

\* the documented default of an optional field
DocumentedDefault(joint, key) ==
    CASE key = "feedforward_torque" -> 0
      [] key = "kp_scale" -> 1
      [] key = "kd_scale" -> 1
      [] key = "maximum_torque" -> TorqueLimit(joint)

\* position of (joint, key) in the order JOINT_NAMES (outer) by ACTION_KEYS
PairIndex(joint, key) ==
    (CHOOSE j \in DOMAIN JOINT_NAMES : JOINT_NAMES[j] = joint) * Len(ACTION_KEYS)
        + (CHOOSE k \in DOMAIN ACTION_KEYS : ACTION_KEYS[k] = key)

\* the value the call works on for a pair that has one
ResolvedValue(a, joint, key) ==
    IF ~Lacks(a, joint, key) THEN a[joint][key] ELSE default_action[joint][key]

OutOfRange(a, joint, key) ==
    \/ ResolvedValue(a, joint, key) < min_action[joint][key]
    \/ ResolvedValue(a, joint, key) > max_action[joint][key]

\* the action without its unknown joints and unknown fields
StripUnknown(a) ==
    [joint \in DOMAIN a \cap Joints |->
        [key \in DOMAIN a[joint] \cap Keys |-> a[joint][key]]]

----------------------------------------------------------------------------
(* Properties *)

\* C1: whenever get_spine_action returns, every value of the returned
\* command lies within [min, max] of its joint and field, inclusive.
C1_ValuesWithinBounds ==
    Returned =>
        \A joint \in Joints, key \in Keys :
            /\ min_action[joint][key] <= ret.servo[joint][key]
            /\ ret.servo[joint][key] <= max_action[joint][key]

\* a call returned although the caller passed values outside the bounds
C1_Witness ==
    /\ Returned
    /\ \E i, k \in DOMAIN log :
          /\ log[i].value > max_action[log[i].label.joint][log[i].label.key]
          /\ log[k].value < min_action[log[k].label.joint][log[k].label.key]

\* C2: an action that lacks position or velocity for one of the six joints
\* makes get_spine_action raise an ActionError that names a field and joint
\* the action lacks (the one lacking, when there is just one), and nothing,
\* not even a partial command, is returned.
C2_MissingRequiredRaises ==
    (Translated /\ MissingRequired(arg) # {}) =>
        /\ raised.type = "ActionError"
        /\ <<raised.message.joint, raised.message.key>> \in MissingRequired(arg)
        /\ ret = None

\* velocity alone is missing, for right_wheel alone, and the error says so
C2_Witness ==
    /\ Translated
    /\ MissingRequired(arg) = {<<"right_wheel", "velocity">>}
    /\ raised.type = "ActionError"
    /\ raised.message.key = "velocity"
    /\ raised.message.joint = "right_wheel"

\* C3: the output for a (joint, field) is the resolved value itself when it
\* is within [min, max], without a warning; it is max when the value is
\* above max and min when it is below min, with a warning labelled with the
\* joint and field; and out-of-range values do not make the call fail.
C3_ClampOrKeep ==
    /\ (Translated /\ MissingRequired(arg) = {}) => Returned
    /\ Returned =>
        \A joint \in Joints, key \in Keys :
            LET v == ResolvedValue(arg, joint, key)
                lo == min_action[joint][key]
                hi == max_action[joint][key]
                out == ret.servo[joint][key]
            IN  /\ (lo <= v /\ v <= hi) => (out = v /\ ~Warned(joint, key))
                /\ v > hi => (out = hi /\ Warned(joint, key))
                /\ v < lo => (out = lo /\ Warned(joint, key))

\* one returned command holds a value kept, a value lowered to max and a
\* value raised to min
C3_Witness ==
    /\ Returned
    /\ \E j1, j2, j3 \in Joints, k1, k2, k3 \in Keys :
          /\ ~Lacks(arg, j1, k1) /\ arg[j1][k1] = ret.servo[j1][k1]
          /\ ~Lacks(arg, j2, k2) /\ arg[j2][k2] > ret.servo[j2][k2]
          /\ ret.servo[j2][k2] = max_action[j2][k2]
          /\ ~Lacks(arg, j3, k3) /\ arg[j3][k3] < ret.servo[j3][k3]
          /\ ret.servo[j3][k3] = min_action[j3][k3]

\* C4: for an omitted feedforward_torque, kp_scale, kd_scale or
\* maximum_torque the output is the default (0, 1, 1, the torque limit of
\* the model), which lies within [min, max] and triggers no warning.
C4_DefaultsForOmitted ==
    Returned =>
        \A joint \in Joints, key \in Keys \ {"position", "velocity"} :
            Lacks(arg, joint, key) =>
                /\ ret.servo[joint][key] = DocumentedDefault(joint, key)
                /\ min_action[joint][key] <= DocumentedDefault(joint, key)
                /\ DocumentedDefault(joint, key) <= max_action[joint][key]
                /\ ~Warned(joint, key)

\* a command returned for an action that gives position and velocity only,
\* for a joint whose torque limit is not zero
C4_Witness ==
    /\ Returned
    /\ \E joint \in Joints :
          /\ DOMAIN arg[joint] = {"position", "velocity"}
          /\ TorqueLimit(joint) > 0
          /\ ret.servo[joint]["maximum_torque"] = TorqueLimit(joint)
          /\ ret.servo[joint]["feedforward_torque"] = 0

\* C5: a returned command has the single key "servo", under it exactly the
\* six joints, and for each exactly the six fields; a call that raises
\* returns nothing.
C5_FullCommand ==
    /\ Returned =>
          /\ DOMAIN ret = {"servo"}
          /\ DOMAIN ret.servo = Joints
          /\ \A joint \in Joints : DOMAIN ret.servo[joint] = Keys
    /\ Failed => ret = None

\* a command returned for an action that carries more and fewer keys than
\* the command has
C5_Witness ==
    /\ Returned
    /\ UNKNOWN_JOINT \in DOMAIN arg
    /\ \E joint \in Joints : DOMAIN arg[joint] = {"position", "velocity"}

\* C6: construction raises ModelError exactly when the joint names of the
\* model, as a set, differ from the six expected ones; then no table and no
\* space has been built, and the message carries the expected and the
\* actual names.
C6_ModelErrorIffMismatch ==
    /\ (pc # "init") =>
          ((pc = "ModelError") <=> (ModelJointSet # Joints))
    /\ (pc = "ModelError") =>
          /\ raised.type = "ModelError"
          /\ raised.message.expected = JOINT_NAMES
          /\ raised.message.got = Tail(robot.names)
          /\ default_action = EmptyDict
          /\ min_action = EmptyDict
          /\ max_action = EmptyDict
          /\ action_space = EmptyDict
          /\ observation_space = EmptyDict

\* construction failed on a model that has the six joints and one more
C6_Witness ==
    /\ pc = "ModelError"
    /\ Joints \subseteq ModelJointSet
    /\ UNKNOWN_JOINT \in ModelJointSet

\* C7: on a model whose joint names are the six expected ones construction
\* succeeds with min <= max for every joint and field, kp_scale and kd_scale
\* bounded by exactly [0, 1] and maximum_torque by [0, torque limit].
C7_BoundsOrdered ==
    (pc # "init" /\ ModelJointSet = Joints) =>
        /\ pc # "ModelError"
        /\ DOMAIN min_action = Joints
        /\ DOMAIN max_action = Joints
        /\ \A joint \in Joints :
              /\ DOMAIN min_action[joint] = Keys
              /\ DOMAIN max_action[joint] = Keys
              /\ \A key \in Keys :
                    min_action[joint][key] <= max_action[joint][key]
              /\ \A key \in {"kp_scale", "kd_scale"} :
                    min_action[joint][key] = 0 /\ max_action[joint][key] = 1
              /\ min_action[joint]["maximum_torque"] = 0
              /\ max_action[joint]["maximum_torque"] = TorqueLimit(joint)

\* construction succeeded on a model that lists the joints in another order
\* than JOINT_NAMES
C7_Witness ==
    /\ op = "__init__"
    /\ pc = "get_spine_action"
    /\ Tail(robot.names) # JOINT_NAMES
    /\ \E joint \in Joints : min_action[joint]["position"] < max_action[joint]["position"]

\* C8: once built, no call changes the default, min or max table, whether
\* the call returns, raises ActionError or logs warnings; so what a
\* get_spine_action call does is what the tables built from the model give
\* for its own argument.
C8_TablesFrozen ==
    [][ (pc # "init") =>
          /\ tables' = tables
          /\ (op' = "get_spine_action") =>
                LET t == BuildTables(robot, 1, NoTables)
                    r == Translate(arg', t.default_action, t.min_action,
                                   t.max_action)
                IN  /\ ret' = r.ret
                    /\ raised' = r.raised
                    /\ log' = r.warnings ]_vars

\* a call that logged warnings and then raised left the tables in place
C8_Witness ==
    /\ Failed
    /\ Len(log) > 0
    /\ DOMAIN default_action = Joints
    /\ DOMAIN min_action = Joints
    /\ DOMAIN max_action = Joints

\* C9: joint names and field names outside the fixed sets are not checked:
\* an action that is otherwise complete is accepted, no warning is logged
\* for them, and the call does exactly what it does for the action without
\* them.
C9_UnknownKeysIgnored ==
    Translated =>
        LET r == Translate(StripUnknown(arg), default_action, min_action,
                           max_action)
        IN  /\ ret = r.ret
            /\ raised = r.raised
            /\ log = r.warnings
            /\ MissingRequired(arg) = {} => raised = NoException
            /\ \A i \in DOMAIN log :
                  log[i].label.joint \in Joints /\ log[i].label.key \in Keys

\* a command returned for an action with an unknown field whose value is
\* beyond every bound
C9_Witness ==
    /\ Returned
    /\ \E joint \in Joints :
          /\ UNKNOWN_KEY \in DOMAIN arg[joint]
          /\ arg[joint][UNKNOWN_KEY] = MaxValue
          /\ \A key \in Keys : arg[joint][UNKNOWN_KEY] > max_action[joint][key]

\* C10: a failing call names the first pair, in the order JOINT_NAMES by
\* ACTION_KEYS, that has neither a caller value nor a default (position for
\* a joint that is absent); the warnings logged are, in that order, those of
\* the out-of-range pairs before it, and none of a pair after it.
C10_FirstMissingInOrder ==
    Failed =>
        LET NoValue(joint, key) ==
                Lacks(arg, joint, key) /\ key \notin DOMAIN default_action[joint]
            first == PairIndex(raised.message.joint, raised.message.key)
        IN  /\ raised.message.joint \in Joints
            /\ raised.message.key \in Keys
            /\ NoValue(raised.message.joint, raised.message.key)
            /\ \A joint \in Joints, key \in Keys :
                  PairIndex(joint, key) < first =>
                      /\ ~NoValue(joint, key)
                      /\ OutOfRange(arg, joint, key) <=> Warned(joint, key)
            /\ \A i \in DOMAIN log :
                  PairIndex(log[i].label.joint, log[i].label.key) < first
            /\ \A i, k \in DOMAIN log :
                  i < k => PairIndex(log[i].label.joint, log[i].label.key)
                              < PairIndex(log[k].label.joint, log[k].label.key)
            /\ raised.message.joint \notin DOMAIN arg
                  => raised.message.key = "position"

\* a call that failed on an absent joint after logging warnings, with a
\* later joint that carries an out-of-range value
C10_Witness ==
    /\ Failed
    /\ Len(log) > 0
    /\ raised.message.joint \notin DOMAIN arg
    /\ \E joint \in Joints :
          /\ PairIndex(joint, "position")
                > PairIndex(raised.message.joint, raised.message.key)
          /\ ~Lacks(arg, joint, "position")
          /\ arg[joint]["position"] > max_action[joint]["position"]

====
